---------------------------- MODULE Spec2Model ----------------------------
(***************************************************************************)
(* Prayer-cycle tracker (src/app.py): the cycle engine, the persistence    *)
(* gateway (local JSON file, spreadsheet file, remote spreadsheet), the    *)
(* Streamlit script runs of the control panel and the mini app, and the    *)
(* bot handler for inbound web-app payloads.                               *)
(*                                                                         *)
(* Strings are sequences of one-character strings, so that startswith,     *)
(* split, int(), str(), strip and upper are computed character by          *)
(* character as Python computes them.                                      *)
(***************************************************************************)
EXTENDS Integers, Sequences, FiniteSets, TLC

(***************************************************************************)
(* Bounds of the model.                                                    *)
(***************************************************************************)
MaxPeople == 2
MaxCols == 3
MaxPayloads == 1
MaxEvents == 4
MaxThreads == 3

(***************************************************************************)
(* Python string primitives.                                               *)
(***************************************************************************)
Digits == <<"0", "1", "2", "3", "4", "5", "6", "7", "8", "9">>

IsDigit(ch) == \E d \in 1..10 : Digits[d] = ch

DigitVal(ch) == (CHOOSE d \in 1..10 : Digits[d] = ch) - 1

Max(S) == CHOOSE x \in S : \A y \in S : y <= x

MaxOr0(S) == IF S = {} THEN 0 ELSE Max(S)

Min(S) == CHOOSE x \in S : \A y \in S : x <= y

Range(f) == { f[x] : x \in DOMAIN f }

startswith(s, prefix) ==
    /\ Len(s) >= Len(prefix)
    /\ SubSeq(s, 1, Len(prefix)) = prefix

\* s.split(sep) for a one-character sep: consecutive separators give empty tokens
RECURSIVE split(_, _)
split(s, sep) ==
    IF \A i \in 1..Len(s) : s[i] # sep
    THEN <<s>>
    ELSE LET i == CHOOSE k \in 1..Len(s) :
                      s[k] = sep /\ \A j \in 1..(k - 1) : s[j] # sep
         IN  <<SubSeq(s, 1, i - 1)>> \o split(SubSeq(s, i + 1, Len(s)), sep)

\* the digits of an integer literal, sign removed
Unsigned(t) == IF Len(t) > 0 /\ t[1] \in {"-", "+"} THEN Tail(t) ELSE t

\* int(t) succeeds: optional sign, then one or more decimal digits
IsIntLiteral(t) ==
    /\ Len(Unsigned(t)) > 0
    /\ \A i \in 1..Len(Unsigned(t)) : IsDigit(Unsigned(t)[i])

RECURSIVE DigitsValue(_)
DigitsValue(d) ==
    IF d = <<>> THEN 0
    ELSE 10 * DigitsValue(SubSeq(d, 1, Len(d) - 1)) + DigitVal(d[Len(d)])

\* int(t), for t with IsIntLiteral(t)
int(t) == IF t[1] = "-" THEN 0 - DigitsValue(Unsigned(t)) ELSE DigitsValue(Unsigned(t))

RECURSIVE NatStr(_)
NatStr(n) ==
    IF n < 10 THEN <<Digits[n + 1]>>
    ELSE NatStr(n \div 10) \o <<Digits[(n % 10) + 1]>>

\* str(n), as the f-string f"Cycle {n}" formats it
str(n) == IF n < 0 THEN <<"-">> \o NatStr(0 - n) ELSE NatStr(n)

CyclePrefix == <<"C", "y", "c", "l", "e", " ">>

\* f"Cycle {n}"
CycleName(n) == CyclePrefix \o str(n)

\* strings used by the inputs
S_A == <<"A">>
S_B == <<"B">>
S_C == <<"C">>
S_D == <<"D">>
Cycle1 == CycleName(1)
Cycle2 == CycleName(2)
Cycle9 == CycleName(9)
Cycle02 == CyclePrefix \o <<"0", "2">>
CycleMinus1 == CyclePrefix \o <<"-", "1">>
Cycle2b == CyclePrefix \o <<"2", " ", "b">>
CycleX == CyclePrefix \o <<"x">>
CycleGap3 == CyclePrefix \o <<" ", "3">>
CycleOnly == <<"C", "y", "c", "l", "e">>
Week3 == <<"W", "e", "e", "k", " ", "3">>

(***************************************************************************)
(* The canonical model: data = {'people': [...], 'columns': [...]}.  A     *)
(* person is {'Name': ..., <column>: bool, ...}: the record keeps the name *)
(* apart from the flags, a function whose domain is the set of column keys *)
(* the dict holds (a key may be missing: the code reads with .get).        *)
(***************************************************************************)
Get(person, col) == IF col \in DOMAIN person.flags THEN person.flags[col] ELSE FALSE

SetFlag(person, col, val) ==
    [person EXCEPT !.flags =
        [k \in (DOMAIN person.flags) \cup {col} |-> IF k = col THEN val ELSE person.flags[k]]]

(***************************************************************************)
(* Cycle engine.                                                           *)
(***************************************************************************)
\* the numbers list built by the loop of get_next_cycle_number
CycleNumbers(columns) ==
    { int(split(columns[i], " ")[2]) :
        i \in { j \in 1..Len(columns) :
                  /\ startswith(columns[j], CyclePrefix)
                  /\ IsIntLiteral(split(columns[j], " ")[2]) } }

get_next_cycle_number_nomax(columns) ==
    IF columns = <<>> THEN 1
    ELSE Len(columns) + 1

\* get_next_cycle_number with min() for max()
get_next_cycle_number_min(columns) ==
    IF columns = <<>> THEN 1
    ELSE IF CycleNumbers(columns) = {} THEN 1
         ELSE Min(CycleNumbers(columns)) + 1

get_next_cycle_number(columns) ==
    IF columns = <<>> THEN 1
    ELSE IF CycleNumbers(columns) = {} THEN 1
         ELSE Max(CycleNumbers(columns)) + 1

check_if_cycle_complete_vacuous(d, cycle_name) ==
    \A i \in 1..Len(d.people) : Get(d.people[i], cycle_name)

check_if_cycle_complete(d, cycle_name) ==
    IF d.people = <<>> THEN FALSE
    ELSE \A i \in 1..Len(d.people) : Get(d.people[i], cycle_name)

\* the model with column new_cycle appended and every person's flag for it False
\* the new cycle starting with every flag of every column cleared
WithNewCycle_cleared(d, new_cycle) ==
    [people  |-> [i \in 1..Len(d.people) |->
                     [Name  |-> d.people[i].Name,
                      flags |-> [col \in DOMAIN d.people[i].flags \cup {new_cycle}
                                    |-> FALSE]]],
     columns |-> Append(d.columns, new_cycle)]

WithNewCycle(d, new_cycle) ==
    [people  |-> [i \in 1..Len(d.people) |-> SetFlag(d.people[i], new_cycle, FALSE)],
     columns |-> Append(d.columns, new_cycle)]

auto_add_new_cycle_settrue(d) ==
    IF d.columns = <<>> THEN [data |-> d, ret |-> FALSE]
    ELSE IF check_if_cycle_complete(d, d.columns[Len(d.columns)])
         THEN [data |-> [people  |-> [i \in 1..Len(d.people) |->
                                         SetFlag(d.people[i],
                                                 CycleName(get_next_cycle_number(d.columns)),
                                                 TRUE)],
                         columns |-> Append(d.columns,
                                            CycleName(get_next_cycle_number(d.columns)))],
               ret  |-> TRUE]
         ELSE [data |-> d, ret |-> FALSE]

\* auto_add_new_cycle mutates data in place and returns a bool: the pair of both
auto_add_new_cycle(d) ==
    IF d.columns = <<>> THEN [data |-> d, ret |-> FALSE]
    ELSE IF check_if_cycle_complete(d, d.columns[Len(d.columns)])
         THEN [data |-> WithNewCycle(d, CycleName(get_next_cycle_number(d.columns))),
               ret  |-> TRUE]
         ELSE [data |-> d, ret |-> FALSE]


(***************************************************************************)
(* More string primitives: strip() and upper().                            *)
(***************************************************************************)
Lowercase == <<"a", "b", "c", "d", "e", "f", "g", "h", "i", "j", "k", "l", "m",
               "n", "o", "p", "q", "r", "s", "t", "u", "v", "w", "x", "y", "z">>

Uppercase == <<"A", "B", "C", "D", "E", "F", "G", "H", "I", "J", "K", "L", "M",
               "N", "O", "P", "Q", "R", "S", "T", "U", "V", "W", "X", "Y", "Z">>

UpperChar(ch) ==
    IF \E k \in 1..26 : Lowercase[k] = ch
    THEN Uppercase[CHOOSE k \in 1..26 : Lowercase[k] = ch]
    ELSE ch

upper(s) == [i \in 1..Len(s) |-> UpperChar(s[i])]

RECURSIVE lstrip(_)
lstrip(s) == IF s # <<>> /\ s[1] = " " THEN lstrip(Tail(s)) ELSE s

RECURSIVE rstrip(_)
rstrip(s) ==
    IF s # <<>> /\ s[Len(s)] = " " THEN rstrip(SubSeq(s, 1, Len(s) - 1)) ELSE s

strip(s) == rstrip(lstrip(s))

S_Name == <<"N", "a", "m", "e">>
S_TRUE == <<"T", "R", "U", "E">>
S_FALSE == <<"F", "A", "L", "S", "E">>
S_YES == <<"Y", "E", "S">>
S_NO == <<"N", "O">>
S_1 == <<"1">>
S_0 == <<"0">>
S_true == <<"t", "r", "u", "e">>
S_false == <<"f", "a", "l", "s", "e">>
S_nan == <<"n", "a", "n">>

(***************************************************************************)
(* The canonical file: json.dump(data) and json.load(f).  The text is      *)
(* modelled as its structure: an object per person, a list of key/value    *)
(* pairs with 'Name' first and booleans written as the literals true and   *)
(* false.                                                                  *)
(***************************************************************************)
\* the elements of a finite set of strings, in a fixed order
RECURSIVE SetToSeq(_)
SetToSeq(S) ==
    IF S = {} THEN <<>>
    ELSE LET x == CHOOSE y \in S : TRUE IN <<x>> \o SetToSeq(S \ {x})

\* the elements of a finite set of integers, ascending
RECURSIVE SetToSortedSeq(_)
SetToSortedSeq(S) ==
    IF S = {} THEN <<>> ELSE <<Min(S)>> \o SetToSortedSeq(S \ {Min(S)})

JsonBool(b) == IF b THEN S_true ELSE S_false

JsonObject(person) ==
    <<<<S_Name, person.Name>>>> \o
    [k \in 1..Cardinality(DOMAIN person.flags) |->
        <<SetToSeq(DOMAIN person.flags)[k],
          JsonBool(person.flags[SetToSeq(DOMAIN person.flags)[k]])>>]

json_dump_dropfalse(d) ==
    [people  |-> [i \in 1..Len(d.people) |->
                     SelectSeq(JsonObject(d.people[i]), LAMBDA kv : kv[2] # S_false)],
     columns |-> d.columns]

json_dump(d) ==
    [people  |-> [i \in 1..Len(d.people) |-> JsonObject(d.people[i])],
     columns |-> d.columns]

\* the value of the last pair of the object with this key
ObjectValue(obj, key) ==
    obj[Max({ k \in 1..Len(obj) : obj[k][1] = key })][2]

ParsePerson(obj) ==
    [Name  |-> ObjectValue(obj, S_Name),
     flags |-> [key \in { obj[k][1] : k \in 1..Len(obj) } \ {S_Name} |->
                   ObjectValue(obj, key) = S_true]]

json_load(text) ==
    [people  |-> [i \in 1..Len(text.people) |-> ParsePerson(text.people[i])],
     columns |-> text.columns]

\* the file at DATA_FILE: absent, JSON text, an Excel workbook, or bytes that
\* are neither
NoFile == [kind |-> "absent"]
Garbage == [kind |-> "garbage"]
JsonFile(text) == [kind |-> "json", text |-> text]
XlsxFile(book) == [kind |-> "xlsx", book |-> book]

(***************************************************************************)
(* load_excel_data.  A workbook is the DataFrame pd.read_excel gives:      *)
(* columns (distinct labels) and rows, a row a tuple of cells in column    *)
(* order; a cell is a str, a bool, a number or NaN (an empty cell).        *)
(* The result is None (an error was shown) or the model.                   *)
(***************************************************************************)
None == [none |-> TRUE]

StrCell(s) == [t |-> "str", v |-> s]
BoolCell(b) == [t |-> "bool", v |-> b]
NumCell(n) == [t |-> "num", v |-> n]
NaNCell == [t |-> "nan"]

\* str(cell)
CellStr(cell) ==
    CASE cell.t = "str" -> cell.v
      [] cell.t = "bool" -> IF cell.v THEN <<"T", "r", "u", "e">> ELSE <<"F", "a", "l", "s", "e">>
      [] cell.t = "num" -> str(cell.v)
      [] cell.t = "nan" -> S_nan

\* bool(cell) of a cell that is no str: NaN is a non-zero float
CellBool(cell) ==
    CASE cell.t = "bool" -> cell.v
      [] cell.t = "num" -> cell.v # 0
      [] cell.t = "nan" -> TRUE

\* lines 56-62
ExcelFlag(cell) ==
    IF cell.t = "str"
    THEN upper(cell.v) \in {S_TRUE, S_YES, S_1}
    ELSE CellBool(cell)

ColumnIndex(columns, name) == CHOOSE k \in 1..Len(columns) : columns[k] = name

load_excel_data(f) ==
    IF f.kind # "xlsx" THEN None
    ELSE IF S_Name \notin Range(f.book.columns) THEN None
    ELSE LET cols == f.book.columns
             cycle_columns == SelectSeq(cols, LAMBDA c : c # S_Name)
         IN  [people  |->
                 [r \in 1..Len(f.book.rows) |->
                     [Name  |-> CellStr(f.book.rows[r][ColumnIndex(cols, S_Name)]),
                      flags |-> [c \in Range(cycle_columns) |->
                                    ExcelFlag(f.book.rows[r][ColumnIndex(cols, c)])]]],
              columns |-> cycle_columns]


(***************************************************************************)
(* load_google_sheets_data.  all_values is what sheet.get_all_values()     *)
(* returns: a list of rows, each a list of strings (rows may be shorter    *)
(* than the header row).  Opening the sheet by name, URL or ID either      *)
(* gives the sheet or fails (no credentials, a bad URL, an API error).     *)
(***************************************************************************)
SampleRows == 5

BoolTokens == {S_TRUE, S_FALSE, S_YES, S_NO, S_1, S_0}

\* the keys of header_map in insertion order: the stripped, non-empty
\* headers by first occurrence
RECURSIVE HeaderNames(_)
HeaderNames(headers) ==
    IF headers = <<>> THEN <<>>
    ELSE LET before == HeaderNames(SubSeq(headers, 1, Len(headers) - 1))
             h == strip(headers[Len(headers)])
         IN  IF h = <<>> \/ h \in Range(before) THEN before ELSE Append(before, h)

\* header_map[name]: the column indices carrying the header, left to right
Candidates(headers, name) ==
    SetToSortedSeq({ k \in 1..Len(headers) : strip(headers[k]) = name })

\* line 126
SampleValues(data_rows, idx) ==
    [r \in 1..Min({SampleRows, Len(data_rows)}) |->
        IF idx <= Len(data_rows[r]) THEN data_rows[r][idx] ELSE <<>>]

\* lines 145-148
has_bool_values(sample_vals) ==
    \E r \in 1..Len(sample_vals) :
        /\ sample_vals[r] # <<>>
        /\ upper(strip(sample_vals[r])) \in BoolTokens

\* best_idx with the loop of lines 143-151 running to its end: the last
\* candidate with a boolean-like sample wins
best_idx_last(headers, data_rows, name) ==
    LET candidates == Candidates(headers, name)
        withBool == { k \in 1..Len(candidates) :
                        has_bool_values(SampleValues(data_rows, candidates[k])) }
    IN  IF Len(candidates) = 1 THEN candidates[1]
        ELSE IF withBool = {} THEN candidates[1]
        ELSE candidates[Max(withBool)]

\* lines 136-153: the column index kept for a header name
best_idx(headers, data_rows, name) ==
    LET candidates == Candidates(headers, name)
        withBool == { k \in 1..Len(candidates) :
                        has_bool_values(SampleValues(data_rows, candidates[k])) }
    IN  IF Len(candidates) = 1 THEN candidates[1]
        ELSE IF withBool = {} THEN candidates[1]
        ELSE candidates[Min(withBool)]

\* lines 169-177: get_all_values gives strings only
SheetFlag(val) == upper(strip(val)) \in {S_TRUE, S_YES, S_1}

\* lines 133-153: final_headers, as the column index kept for each header name
FinalIndex(headers, data_rows) ==
    [n \in Range(HeaderNames(headers)) |-> best_idx(headers, data_rows, n)]

\* lines 166-177: the dict built from one row; a key is missing when the row
\* is too short to hold its column
SheetPerson(final, row) ==
    LET present == { n \in DOMAIN final : final[n] <= Len(row) }
    IN  [hasName |-> S_Name \in present,
         Name    |-> IF S_Name \in present THEN strip(row[final[S_Name]]) ELSE <<>>,
         flags   |-> [n \in present \ {S_Name} |-> SheetFlag(row[final[n]])]]

\* lines 109-186
normalize_sheet(all_values) ==
    IF Len(all_values) < 2 THEN None
    ELSE LET headers == all_values[1]
             data_rows == Tail(all_values)
             names == HeaderNames(headers)
             final == FinalIndex(headers, data_rows)
             persons == [r \in 1..Len(data_rows) |-> SheetPerson(final, data_rows[r])]
             kept == SelectSeq(persons, LAMBDA q : q.hasName /\ q.Name # <<>>)
         IN  IF S_Name \notin Range(names) THEN None
             ELSE [people  |-> [i \in 1..Len(kept) |->
                                   [Name |-> kept[i].Name, flags |-> kept[i].flags]],
                   columns |-> SelectSeq(names, LAMBDA n : n # S_Name)]

\* remote: [creds: credentials in the secrets, values: the sheet's cells];
\* net: whether this call reaches the sheet ("ok") or an exception is raised
load_google_sheets_data(remote, net) ==
    IF ~remote.creds THEN None
    ELSE IF net # "ok" THEN None
    ELSE normalize_sheet(remote.values)


(***************************************************************************)
(* load_data, save_to_google_sheets, save_data.                            *)
(*   cfg     [DATA_SOURCE_TYPE, GOOGLE_SHEET_NAME (TRUE: a name is set)]   *)
(*   custom  st.session_state.custom_data_source, or NoCustom              *)
(*   f       the file at DATA_FILE                                         *)
(*   remote  the remote spreadsheet service                                *)
(*   net1, net2, net  the outcome of each remote call, chosen by the       *)
(*           environment                                                   *)
(***************************************************************************)
NoCustom == [type |-> "none"]
CustomExcel(upload) == [type |-> "excel", file |-> upload]
CustomSheets == [type |-> "google_sheets"]

\* lines 222-228
DefaultData ==
    [people  |-> <<[Name  |-> <<"N", "a", "m", "e", " ", "1">>,
                    flags |-> [c \in {Cycle1, Cycle2} |-> c = Cycle1]],
                   [Name  |-> <<"N", "a", "m", "e", " ", "2">>,
                    flags |-> [c \in {Cycle1, Cycle2} |-> c = Cycle1]]>>,
     columns |-> <<Cycle1, Cycle2>>]

Loaded(d, source) == [data |-> d, source |-> source, raised |-> FALSE]

\* lines 216-228: the local file, else the built-in roster; json.load raises
\* on a file that is not JSON text
load_json_or_default(f) ==
    IF f.kind # "absent"
    THEN IF f.kind = "json"
         THEN Loaded(json_load(f.text), "json")
         ELSE [data |-> None, source |-> "json", raised |-> TRUE]
    ELSE Loaded(DefaultData, "default")

\* lines 206-214: the source configured in the secrets
load_configured(cfg, f, remote, net2) ==
    IF cfg.DATA_SOURCE_TYPE = "excel" /\ f.kind # "absent"
    THEN LET d == load_excel_data(f)
         IN  IF d # None THEN Loaded(d, "excel") ELSE load_json_or_default(f)
    ELSE IF cfg.DATA_SOURCE_TYPE = "google_sheets" /\ cfg.GOOGLE_SHEET_NAME
    THEN LET d == load_google_sheets_data(remote, net2)
         IN  IF d # None THEN Loaded(d, "google_sheets") ELSE load_json_or_default(f)
    ELSE load_json_or_default(f)

\* lines 194-204: the source chosen in the sidebar, when it loads
load_custom(custom, remote, net1) ==
    IF custom.type = "excel" THEN load_excel_data(custom.file)
    ELSE IF custom.type = "google_sheets" THEN load_google_sheets_data(remote, net1)
    ELSE None

\* lines 191-228
load_data(custom, cfg, f, remote, net1, net2) ==
    LET d == load_custom(custom, remote, net1)
    IN  IF d # None THEN Loaded(d, "custom_" \o custom.type)
        ELSE load_configured(cfg, f, remote, net2)

\* lines 260-269: the rows written to the sheet
SheetRows(d) ==
    <<<<S_Name>> \o d.columns>> \o
    [i \in 1..Len(d.people) |->
        <<d.people[i].Name>> \o
        [k \in 1..Len(d.columns) |->
            IF Get(d.people[i], d.columns[k]) THEN S_TRUE ELSE S_FALSE]]

\* lines 230-278: net is "ok", "error" (an exception before sheet.clear()) or
\* "error_after_clear" (sheet.update raises)
save_to_google_sheets(d, remote, net) ==
    IF ~remote.creds THEN [remote |-> remote, ok |-> FALSE]
    ELSE IF net = "error" THEN [remote |-> remote, ok |-> FALSE]
    ELSE IF net = "error_after_clear"
    THEN [remote |-> [remote EXCEPT !.values = <<>>], ok |-> FALSE]
    ELSE [remote |-> [remote EXCEPT !.values = SheetRows(d)], ok |-> TRUE]

\* lines 287-292: whether save_data mirrors to the remote sheet
Mirrors(custom, cfg) ==
    IF custom.type # "none"
    THEN custom.type = "google_sheets"
    ELSE cfg.DATA_SOURCE_TYPE = "google_sheets" /\ cfg.GOOGLE_SHEET_NAME

MirrorEvent(ok) == IF ok THEN "mirror_ok" ELSE "mirror_failed"

\* a save that mirrors first and gives up the local write when the mirror fails
save_data_mirror_first(d, custom, cfg, f, remote, net) ==
    IF Mirrors(custom, cfg)
    THEN IF save_to_google_sheets(d, remote, net).ok
         THEN [file   |-> JsonFile(json_dump(d)),
               remote |-> save_to_google_sheets(d, remote, net).remote,
               events |-> <<"mirror_ok", "write_local">>,
               raised |-> FALSE]
         ELSE [file   |-> f,
               remote |-> save_to_google_sheets(d, remote, net).remote,
               events |-> <<"mirror_failed">>,
               raised |-> TRUE]
    ELSE [file |-> JsonFile(json_dump(d)), remote |-> remote,
          events |-> <<"write_local">>, raised |-> FALSE]

\* lines 280-292: the file and the sheet after the call, and what it did in order
Mirrored(local, m) ==
    [file   |-> local,
     remote |-> m.remote,
     events |-> <<"write_local", MirrorEvent(m.ok)>>,
     raised |-> FALSE]

save_data(d, custom, cfg, f, remote, net) ==
    IF Mirrors(custom, cfg)
    THEN Mirrored(JsonFile(json_dump(d)), save_to_google_sheets(d, remote, net))
    ELSE [file |-> JsonFile(json_dump(d)), remote |-> remote,
          events |-> <<"write_local">>, raised |-> FALSE]

NetOutcomes == {"ok", "error"}

SaveNetOutcomes == {"ok", "error", "error_after_clear"}


(***************************************************************************)
(* State.                                                                  *)
(*   data    st.session_state.data (NoData: the key is absent), or the     *)
(*           model a direct call works on                                  *)
(*   file    the file at DATA_FILE                                         *)
(*   remote  the remote spreadsheet: [creds, values]                       *)
(*   cfg     the secrets: [DATA_SOURCE_TYPE, GOOGLE_SHEET_NAME]            *)
(*   custom  st.session_state.custom_data_source                           *)
(*   raised  the last call or handler ended with an uncaught exception     *)
(*   calls   the direct calls made on the engine or the gateway and what   *)
(*           each returned, most recent first (the last two are kept)      *)
(***************************************************************************)
VARIABLES data, file, remote, cfg, custom, raised, calls,
          is_mini_app, show_add_person, widgets, selectbox, uploaded, pc, trace,
          events, botTrace, bot

\* the session's page and widgets, and what the handlers did:
\*   is_mini_app      the page was opened with ?mode=miniapp
\*   show_add_person  st.session_state.show_add_person
\*   widgets          the value of each checkbox, by its key <<person index, column>>
\*   selectbox        the sidebar's "Select Data Source" choice
\*   uploaded         the sidebar's uploaded Excel file, or NoUpload
\*   pc               "start": no script run yet; "idle": the page is rendered and
\*                    waits for the user; "rerun": st.rerun() was called and the
\*                    script runs again at once; "error": the run raised
\*   trace            the user's last action and what the script runs it caused
\*                    did since, in order
\*   events           the number of user actions so far
\*   botTrace         what the bot's handler of web-app payloads did, in order
\*   bot              STATUS_FILE, the listener threads started, and who was
\*                    listening when Stop was clicked
uiVars == <<is_mini_app, show_add_person, widgets, selectbox, uploaded, pc, trace, events>>

vars == <<data, file, remote, cfg, custom, raised, calls, uiVars, botTrace, bot>>

envVars == <<file, remote, cfg, custom>>

\* no STATUS_FILE, no listener thread started
NoBot == [status |-> [kind |-> "absent"], threads |-> <<>>, asked |-> {}]

NoUpload == [kind |-> "absent"]

\* the session variables where no page is open
NoSession ==
    /\ is_mini_app = FALSE
    /\ show_add_person = FALSE
    /\ widgets = <<>>
    /\ selectbox = "JSON File"
    /\ uploaded = NoUpload
    /\ pc = "start"
    /\ trace = <<>>
    /\ events = 0
    /\ botTrace = <<>>
    /\ bot = NoBot

NoData == [absent |-> TRUE]

NamePool == <<S_A, S_B, S_C, S_D>>

\* column lists a model can be loaded with: free-form header names
ColumnLists ==
    { <<>>, <<Cycle1>>, <<Cycle1, Cycle2>>, <<Cycle2, Cycle1>>, <<Cycle9>>,
      <<Cycle02>>, <<CycleMinus1>>, <<Cycle2b>>, <<CycleX>>, <<CycleGap3>>,
      <<CycleOnly>>, <<Week3>>, <<Cycle1, Week3>>, <<Cycle1, Cycle1>> }

\* the flag dicts over a set of column keys: every key True, False or missing
FlagDicts(keys) == UNION { [K -> BOOLEAN] : K \in SUBSET keys }

\* the rosters of n people over the given columns, named in NamePool order
Rosters(columns, n) ==
    { [i \in 1..n |-> [Name |-> NamePool[i], flags |-> fl[i]]] :
        fl \in [1..n -> FlagDicts(Range(columns))] }

Models(columnLists) ==
    UNION { { [people |-> p, columns |-> c] :
                p \in UNION { Rosters(c, n) : n \in 0..MaxPeople } } :
            c \in columnLists }

Record(op, r) == [op |-> op, ret |-> r]

Called(op, r) == IF calls = <<>> THEN <<Record(op, r)>> ELSE <<Record(op, r), calls[1]>>

(***************************************************************************)
(* SpecEngine: the cycle engine called directly on any model.              *)
(***************************************************************************)
InitEngine ==
    /\ data \in Models(ColumnLists)
    /\ calls = <<>>
    /\ file = NoFile
    /\ remote = [creds |-> FALSE, values |-> <<>>]
    /\ cfg = [DATA_SOURCE_TYPE |-> "json", GOOGLE_SHEET_NAME |-> FALSE]
    /\ custom = NoCustom
    /\ raised = FALSE
    /\ NoSession

\* a call auto_add_new_cycle(data)
EngineAutoAdd ==
    /\ data' = auto_add_new_cycle(data).data
    /\ calls' = Called("auto_add_new_cycle", auto_add_new_cycle(data).ret)
    /\ UNCHANGED <<envVars, raised, uiVars, botTrace, bot>>

\* a call check_if_cycle_complete(data, col) on a column of the model
EngineCheckComplete ==
    \E i \in 1..Len(data.columns) :
        /\ calls' = Called("check_if_cycle_complete",
                           check_if_cycle_complete(data, data.columns[i]))
        /\ UNCHANGED <<data, envVars, raised, uiVars, botTrace, bot>>

\* Add Cycle numbering the new column by the count of the columns
add_cycle_count(d) == WithNewCycle(d, CycleName(Len(d.columns) + 1))

\* the Add Cycle step: the next auto-derived name, every flag False
add_cycle(d) == WithNewCycle(d, CycleName(get_next_cycle_number(d.columns)))

EngineAddCycle ==
    /\ Len(data.columns) < MaxCols
    /\ data' = add_cycle(data)
    /\ calls' = Called("add_cycle", TRUE)
    /\ UNCHANGED <<envVars, raised, uiVars, botTrace, bot>>

NextEngine == EngineAutoAdd \/ EngineCheckComplete \/ EngineAddCycle

SpecEngine == InitEngine /\ [][NextEngine]_vars


(***************************************************************************)
(* SpecStore: the persistence gateway called directly, load_data() and     *)
(* save_data(data), in every configuration of the sources.                 *)
(***************************************************************************)
\* a workbook with a Name column: a text cell, a bool cell, an empty cell
Book1 ==
    [columns |-> <<S_Name, Cycle1>>,
     rows    |-> <<<<StrCell(S_A), StrCell(<<"y", "e", "s">>)>>,
                   <<StrCell(S_B), NaNCell>>,
                   <<NumCell(7), BoolCell(FALSE)>>>>]

\* a workbook without a Name column
BookNoName ==
    [columns |-> <<<<"W", "h", "o">>, Cycle1>>,
     rows    |-> <<<<StrCell(S_A), BoolCell(TRUE)>>>>]

\* a workbook with a Name column and no other column
BookNameOnly ==
    [columns |-> <<S_Name>>,
     rows    |-> <<<<StrCell(S_A)>>>>]

\* a sheet with a duplicate header, a blank header, a short row and a row
\* with a blank name
Grid1 ==
    << <<S_Name, Cycle1, <<>>, <<"C", "y", "c", "l", "e", " ", "1", " ">>, Cycle2>>,
       <<S_A, <<>>, <<"x">>, S_TRUE, <<"y", "e", "s">>>>,
       <<<<" ", "B">>, <<>>, <<>>, S_FALSE>>,
       <<<<" ">>, S_TRUE, <<>>, S_TRUE, S_TRUE>> >>

\* a sheet without a Name column
GridNoName == << <<Cycle1>>, <<S_TRUE>> >>

StoredModel ==
    [people  |-> <<[Name |-> S_A, flags |-> (Cycle1 :> TRUE)]>>,
     columns |-> <<Cycle1>>]

Cfgs ==
    { [DATA_SOURCE_TYPE |-> "json", GOOGLE_SHEET_NAME |-> FALSE],
      [DATA_SOURCE_TYPE |-> "excel", GOOGLE_SHEET_NAME |-> FALSE],
      [DATA_SOURCE_TYPE |-> "google_sheets", GOOGLE_SHEET_NAME |-> FALSE],
      [DATA_SOURCE_TYPE |-> "google_sheets", GOOGLE_SHEET_NAME |-> TRUE] }

Customs == { NoCustom, CustomExcel(XlsxFile(Book1)), CustomExcel(XlsxFile(BookNoName)),
             CustomSheets }

\* a canonical file in which a participant lacks the entry of a column
SparseModel ==
    [people  |-> <<[Name |-> S_A, flags |-> (Cycle2 :> TRUE)],
                   [Name |-> S_B, flags |-> (Cycle1 :> FALSE @@ Cycle2 :> TRUE)]>>,
     columns |-> <<Cycle1, Cycle2>>]

Files == { NoFile, Garbage, JsonFile(json_dump(StoredModel)),
           JsonFile(json_dump(SparseModel)), XlsxFile(Book1), XlsxFile(BookNoName),
           XlsxFile(BookNameOnly) }

Remotes == { [creds |-> FALSE, values |-> Grid1],
             [creds |-> TRUE, values |-> Grid1],
             [creds |-> TRUE, values |-> GridNoName],
             [creds |-> TRUE, values |-> <<>>] }

StoreColumnLists == { <<>>, <<Cycle1>>, <<Cycle1, Week3>> }

\* any model with a few sources, or a few models with any sources
InitStore ==
    /\ \/ /\ data \in Models(StoreColumnLists)
          /\ custom \in {NoCustom, CustomSheets}
          /\ file = NoFile
          /\ remote \in {[creds |-> FALSE, values |-> Grid1], [creds |-> TRUE, values |-> Grid1]}
       \/ /\ data \in {StoredModel, DefaultData}
          /\ custom \in Customs
          /\ file \in Files
          /\ remote \in Remotes
    /\ cfg \in Cfgs
    /\ raised = FALSE
    /\ calls = <<>>
    /\ NoSession

\* a call save_data(data)
StoreSave ==
    \E net \in SaveNetOutcomes :
        LET r == save_data(data, custom, cfg, file, remote, net)
        IN  /\ file' = r.file
            /\ remote' = r.remote
            /\ raised' = r.raised
            /\ calls' = Called("save_data", r.events)
            /\ UNCHANGED <<data, cfg, custom, uiVars, botTrace, bot>>

\* a call data = load_data(); when it raises, data keeps its value
StoreLoad ==
    \E net1 \in NetOutcomes, net2 \in NetOutcomes :
        LET r == load_data(custom, cfg, file, remote, net1, net2)
        IN  /\ data' = IF r.raised THEN data ELSE r.data
            /\ raised' = r.raised
            /\ calls' = Called("load_data", r.source)
            /\ UNCHANGED <<envVars, uiVars, botTrace, bot>>

NextStore == StoreSave \/ StoreLoad

SpecStore == InitStore /\ [][NextStore]_vars

(***************************************************************************)
(* One run of the Streamlit script (lines 510-1051), top to bottom.  The   *)
(* working state of a run is a record st:                                  *)
(*   data, custom, show, widgets   the session state                       *)
(*   file, remote                  the backends                            *)
(*   trace                         the events so far                       *)
(*   stop   "no"; "rerun" once st.rerun() was called; "raised" once an     *)
(*          exception ended the run: the rest of the script is skipped     *)
(* ev is the widget event that triggered the run, nets the outcomes of the *)
(* remote calls.  A checkbox is identified by its key: it returns its      *)
(* stored value when the key has one, else its value argument.             *)
(***************************************************************************)
Ev(name) == [name |-> name, i |-> 0, c |-> <<>>, new_name |-> <<>>]

Skip(st) == st.stop # "no"

Log(st, event) == [st EXCEPT !.trace = Append(@, event)]

\* data = load_data() inside a run; r is what load_data returned
Assigned(st, r) ==
    IF r.raised
    THEN [Log(st, "load_raised") EXCEPT !.stop = "raised"]
    ELSE [Log(st, "load") EXCEPT !.data = r.data]

RunLoad(st, c, net1, net2) ==
    Assigned(st, load_data(st.custom, c, st.file, st.remote, net1, net2))

\* save_data(st.session_state.data) inside a run; r is what save_data did
Written(st, r) ==
    [st EXCEPT !.file = r.file, !.remote = r.remote, !.trace = @ \o r.events]

RunSave(st, c, net) ==
    Written(st, save_data(st.data, st.custom, c, st.file, st.remote, net))

\* st.rerun(), unless an exception ended the run before
Rerunning(st) == IF Skip(st) THEN st ELSE [st EXCEPT !.stop = "rerun"]

WithCustom(st, source) == [st EXCEPT !.custom = source]

\* lines 638 and 744: whether the run loads the model
LoadsModel(st, c) == st.data = NoData \/ c.DATA_SOURCE_TYPE = "google_sheets"

\* lines 637-639, 743-745
PhaseLoad(st, c, nets) ==
    IF LoadsModel(st, c) THEN RunLoad(st, c, nets.l1, nets.l2) ELSE st

\* lines 764-814: the sidebar's data source (control panel only)
PhaseSidebar(st, ev, c, mini, sel, upl, nets) ==
    IF Skip(st) \/ mini THEN st
    ELSE IF sel = "Excel File"
    THEN IF upl = NoUpload THEN st
         ELSE IF ev.name = "reload"
         THEN Rerunning(RunLoad(WithCustom(st, CustomExcel(upl)), c, nets.l1, nets.l2))
         ELSE WithCustom(st, CustomExcel(upl))
    ELSE IF sel = "Google Sheets"
    THEN IF ev.name = "connect" /\ ev.new_name # <<>>
         THEN Rerunning(RunLoad(WithCustom(st, CustomSheets), c, nets.l1, nets.l2))
         ELSE st
    ELSE WithCustom(st, NoCustom)

\* line 859: the Refresh button
PhaseRefresh(st, ev, mini) ==
    IF Skip(st) \/ mini THEN st
    ELSE IF ev.name = "refresh" THEN [st EXCEPT !.stop = "rerun"]
    ELSE st

\* lines 641-644, 882-886: auto-check, save and notify when a cycle was added
Advanced(st, r, c, net) ==
    IF r.ret
    THEN Log(RunSave([Log(Log(st, "auto_add"), "advance") EXCEPT !.data = r.data], c, net),
             "notify_advance")
    ELSE Log(st, "auto_add")

PhaseAuto(st, c, net) ==
    IF Skip(st) THEN st ELSE Advanced(st, auto_add_new_cycle(st.data), c, net)

\* lines 657-674, 890-909: Add Person, Add Cycle, Save
PhaseButtons(st, ev, c, mini, net) ==
    IF Skip(st) THEN st
    ELSE IF ev.name = "add_person_button" THEN [st EXCEPT !.show = TRUE]
    ELSE IF ev.name = "add_cycle"
    THEN [Log(st, "mutate") EXCEPT !.data = add_cycle(st.data), !.stop = "rerun"]
    ELSE IF ev.name = "save"
    THEN IF mini THEN RunSave(st, c, net) ELSE Rerunning(RunSave(st, c, net))
    ELSE st

\* lines 684-688, 919-923: the person appended by the form
NewPerson(d, new_name) ==
    [Name |-> new_name, flags |-> [col \in Range(d.columns) |-> FALSE]]

\* lines 676-696, 911-929: the add_person_form
PhaseForm(st, ev) ==
    IF Skip(st) \/ ~st.show THEN st
    ELSE IF ev.name = "submit_add"
    THEN IF ev.new_name # <<>>
         THEN [Log(st, "mutate") EXCEPT
                  !.data.people = Append(@, NewPerson(st.data, ev.new_name)),
                  !.show = FALSE,
                  !.stop = "rerun"]
         ELSE st
    ELSE IF ev.name = "cancel" THEN [st EXCEPT !.show = FALSE, !.stop = "rerun"]
    ELSE st

\* lines 723-729, 954-959: what the checkbox of person i and column col returns
Checked(st, i, col) ==
    IF <<i, col>> \in DOMAIN st.widgets
    THEN st.widgets[<<i, col>>]
    ELSE Get(st.data.people[i], col)

\* the row of person i after the assignments of line 729 / 959
RowApplied(st, i) ==
    [st.data.people[i] EXCEPT !.flags =
        [k \in (DOMAIN st.data.people[i].flags) \cup Range(st.data.columns) |->
            IF k \in Range(st.data.columns)
            THEN Checked(st, i, k)
            ELSE st.data.people[i].flags[k]]]

\* the checkboxes rendered for rows 1..upto, with their values
Rendered(st, upto) ==
    [k \in { <<i, col>> : i \in 1..upto, col \in Range(st.data.columns) } |->
        Checked(st, k[1], k[2])]

\* the assignments of line 729 / 959 change a flag when a checkbox returns
\* another value than the model holds
LogIfChanged(st, d) ==
    IF \A i \in 1..Len(d.people) : \A col \in Range(d.columns) :
           Get(d.people[i], col) = Get(st.data.people[i], col)
    THEN st
    ELSE Log(st, "mutate")

\* lines 700-738, 933-968: the table; a click on row r's remove button stops
\* the run at that row
PhaseTable(st, ev) ==
    IF Skip(st) THEN st
    ELSE IF st.data.people = <<>> THEN [st EXCEPT !.widgets = <<>>]
    ELSE LET n == Len(st.data.people)
         IN  IF ev.name = "remove" /\ ev.i <= n
             THEN [Log(st, "mutate") EXCEPT
                      !.data.people =
                          [i \in 1..(n - 1) |->
                              IF i < ev.i THEN RowApplied(st, i) ELSE st.data.people[i + 1]],
                      !.widgets = Rendered(st, ev.i) @@ st.widgets,
                      !.stop = "rerun"]
             ELSE LET d == [st.data EXCEPT !.people = [i \in 1..n |-> RowApplied(st, i)]]
                  IN  [LogIfChanged(st, d) EXCEPT !.data = d, !.widgets = Rendered(st, n)]

\* whether the auto-check, or the Save button, is about to write to the sheet
AutoMirrors(st, c) ==
    ~Skip(st) /\ Mirrors(st.custom, c) /\ auto_add_new_cycle(st.data).ret

SaveMirrors(st, ev, c) == ~Skip(st) /\ Mirrors(st.custom, c) /\ ev.name = "save"

(***************************************************************************)
(* The session: a browser session of the control panel or of the Mini App, *)
(* and the bot's handler of Mini App payloads.                             *)
(*   pc     "start"  no script run yet                                     *)
(*          "idle"   the last run completed, the page waits for the user   *)
(*          "rerun"  the last run called st.rerun()                        *)
(*          "error"  the last run ended with an exception                  *)
(*   events the number of user events so far                               *)
(*   trace  the event that started the current chain of runs, "mutate" if  *)
(*          a mutation made since the last auto_add_new_cycle call is      *)
(*          carried over, then what the runs did, in order                 *)
(* There is one remote sheet: the name typed in the sidebar names the      *)
(* configured sheet.                                                       *)
(***************************************************************************)
TwoPeople ==
    [people  |-> <<[Name |-> S_A, flags |-> (Cycle1 :> FALSE)],
                   [Name |-> S_B, flags |-> (Cycle1 :> FALSE)]>>,
     columns |-> <<Cycle1>>]

TwoPeopleDone ==
    [people  |-> <<[Name |-> S_A, flags |-> (Cycle1 :> TRUE)],
                   [Name |-> S_B, flags |-> (Cycle1 :> TRUE)]>>,
     columns |-> <<Cycle1>>]

GridAB == << <<S_Name, Cycle1>>, <<S_A, S_FALSE>>, <<S_B, S_FALSE>> >>

BookAB ==
    [columns |-> <<S_Name, Cycle1>>,
     rows    |-> << <<StrCell(S_A), BoolCell(FALSE)>>, <<StrCell(S_B), BoolCell(FALSE)>> >>]

\* the deployments: secrets, local file, remote sheet
Deployments ==
    ([cfg : {[DATA_SOURCE_TYPE |-> "json", GOOGLE_SHEET_NAME |-> FALSE]},
      file : {JsonFile(json_dump(TwoPeople)), JsonFile(json_dump(SparseModel))},
      remote : {[creds |-> TRUE, values |-> GridAB]}])
    \cup
    ([cfg : {[DATA_SOURCE_TYPE |-> "excel", GOOGLE_SHEET_NAME |-> FALSE]},
      file : {XlsxFile(BookAB), XlsxFile(BookNoName)},
      remote : {[creds |-> FALSE, values |-> GridAB]}])
    \cup
    ([cfg : {[DATA_SOURCE_TYPE |-> "google_sheets", GOOGLE_SHEET_NAME |-> FALSE]},
      file : {NoFile},
      remote : {[creds |-> FALSE, values |-> GridAB]}])
    \cup
    ([cfg : {[DATA_SOURCE_TYPE |-> "google_sheets", GOOGLE_SHEET_NAME |-> TRUE]},
      file : {NoFile},
      remote : {[creds |-> TRUE, values |-> GridAB]}])

\* line 767: the selectbox's initial choice
DefaultSelect(c) ==
    IF c.DATA_SOURCE_TYPE = "json" THEN "JSON File"
    ELSE IF c.DATA_SOURCE_TYPE = "excel" THEN "Excel File"
    ELSE "Google Sheets"

Init ==
    /\ \E dep \in Deployments :
          /\ cfg = dep.cfg
          /\ file = dep.file
          /\ remote = dep.remote
    /\ is_mini_app \in BOOLEAN
    /\ data = NoData
    /\ custom = NoCustom
    /\ raised = FALSE
    /\ calls = <<>>
    /\ show_add_person = FALSE
    /\ widgets = <<>>
    /\ selectbox = DefaultSelect(cfg)
    /\ uploaded = NoUpload
    /\ pc = "start"
    /\ trace = <<>>
    /\ events = 0
    /\ botTrace = <<>>
    /\ bot = NoBot

\* the last auto_add_new_cycle call in a trace (0: none) and whether a
\* mutation came after it
LastIndexOf(t, event) == MaxOr0({ k \in 1..Len(t) : t[k] = event })

MutatedSinceAuto(t) == LastIndexOf(t, "mutate") > LastIndexOf(t, "auto_add")

Carry(t) == IF MutatedSinceAuto(t) THEN <<"mutate">> ELSE <<>>

Bounded(d) ==
    IF d = NoData THEN TRUE
    ELSE Len(d.people) <= MaxPeople /\ Len(d.columns) <= MaxCols

\* the outcomes of the remote calls of one run; a call that is not made has
\* the outcome "ok"
Outcomes(called, outcomes) == IF called THEN outcomes ELSE {"ok"}

\* the loads from the sidebar's sheet (l1) and from the configured sheet (l2)
LoadNets(ev, cust) ==
    [l1 : Outcomes(cust.type = "google_sheets" \/ ev.name = "connect", NetOutcomes),
     l2 : Outcomes(cfg.DATA_SOURCE_TYPE = "google_sheets" /\ cfg.GOOGLE_SHEET_NAME,
                   NetOutcomes)]

PcAfter(stop) ==
    IF stop = "no" THEN "idle" ELSE IF stop = "rerun" THEN "rerun" ELSE "error"

\* one script run on a session state, started by an event with the sidebar's
\* widgets holding sel and upl: the phases in the order of the script
RunScript(session, event, sel, upl) ==
    \E st0 \in {session}, ev \in {event} :
    \E nets \in LoadNets(ev, st0.custom) :
    \E loaded \in {PhaseLoad(st0, cfg, nets)} :
    \E sidebar \in {PhaseSidebar(loaded, ev, cfg, is_mini_app, sel, upl, nets)} :
    \E top \in {PhaseRefresh(sidebar, ev, is_mini_app)} :
    \E net1 \in Outcomes(AutoMirrors(top, cfg), SaveNetOutcomes) :
    \E auto \in {PhaseAuto(top, cfg, net1)} :
    \E net2 \in Outcomes(SaveMirrors(auto, ev, cfg), SaveNetOutcomes) :
    \E buttons \in {PhaseButtons(auto, ev, cfg, is_mini_app, net2)} :
    \E form \in {PhaseForm(buttons, ev)} :
    \E st \in {PhaseTable(form, ev)} :
        /\ Bounded(st.data)
        /\ events' = IF ev.name = "rerun" THEN events ELSE events + 1
        /\ events' <= MaxEvents
        /\ data' = st.data
        /\ custom' = st.custom
        /\ show_add_person' = st.show
        /\ widgets' = st.widgets
        /\ file' = st.file
        /\ remote' = st.remote
        /\ trace' = st.trace
        /\ raised' = (st.stop = "raised")
        /\ pc' = PcAfter(st.stop)
        /\ selectbox' = sel
        /\ uploaded' = IF sel = "Excel File" THEN upl ELSE NoUpload
        /\ UNCHANGED <<cfg, calls, is_mini_app, botTrace, bot>>

\* the session state a run starts from
Session(w, t) ==
    [data |-> data, custom |-> custom, show |-> show_add_person, widgets |-> w,
     file |-> file, remote |-> remote, trace |-> t, stop |-> "no"]

Started(ev) == <<ev.name>> \o Carry(trace)

\* a browser opens the page: a new session, the script runs for the first time
Open ==
    /\ pc \in {"start", "error"}
    /\ RunScript([data |-> NoData, custom |-> NoCustom, show |-> FALSE, widgets |-> <<>>,
                  file |-> file, remote |-> remote, trace |-> <<"open">>, stop |-> "no"],
                 Ev("open"), DefaultSelect(cfg), NoUpload)

\* the run that st.rerun() starts
Rerun ==
    /\ pc = "rerun"
    /\ RunScript(Session(widgets, Append(trace, "rerun")), Ev("rerun"), selectbox, uploaded)

\* the user ticks or unticks a checkbox the page shows
Toggle ==
    /\ pc = "idle"
    /\ \E key \in DOMAIN widgets :
          RunScript(Session([widgets EXCEPT ![key] = ~@], Started(Ev("toggle"))),
                    Ev("toggle"), selectbox, uploaded)

\* the user clicks a button
ClickAddPerson ==
    /\ pc = "idle"
    /\ RunScript(Session(widgets, Started(Ev("add_person_button"))),
                 Ev("add_person_button"), selectbox, uploaded)

ClickAddCycle ==
    /\ pc = "idle"
    /\ RunScript(Session(widgets, Started(Ev("add_cycle"))), Ev("add_cycle"),
                 selectbox, uploaded)

ClickSave ==
    /\ pc = "idle"
    /\ RunScript(Session(widgets, Started(Ev("save"))), Ev("save"), selectbox, uploaded)

ClickCancel ==
    /\ pc = "idle"
    /\ show_add_person
    /\ RunScript(Session(widgets, Started(Ev("cancel"))), Ev("cancel"), selectbox, uploaded)

ClickRefresh ==
    /\ pc = "idle"
    /\ ~is_mini_app
    /\ RunScript(Session(widgets, Started(Ev("refresh"))), Ev("refresh"), selectbox, uploaded)

ClickReload ==
    /\ pc = "idle"
    /\ ~is_mini_app
    /\ selectbox = "Excel File"
    /\ uploaded # NoUpload
    /\ RunScript(Session(widgets, Started(Ev("reload"))), Ev("reload"), selectbox, uploaded)

\* the form is submitted with a name typed, with a blank typed, or with none
NewNames == { <<>>, <<" ">>, S_C }

SubmitAdd ==
    /\ pc = "idle"
    /\ show_add_person
    /\ \E new_name \in NewNames :
          LET ev == [Ev("submit_add") EXCEPT !.new_name = new_name]
          IN  RunScript(Session(widgets, Started(ev)), ev, selectbox, uploaded)

\* the remove button of a row the page shows
ClickRemove ==
    /\ pc = "idle"
    /\ data # NoData
    /\ \E i \in 1..Len(data.people) :
          LET ev == [Ev("remove") EXCEPT !.i = i]
          IN  RunScript(Session(widgets, Started(ev)), ev, selectbox, uploaded)

\* the sidebar: another data source is selected
SelectSource ==
    /\ pc = "idle"
    /\ ~is_mini_app
    /\ \E sel \in {"JSON File", "Excel File", "Google Sheets"} :
          /\ sel # selectbox
          /\ RunScript(Session(widgets, Started(Ev("select"))), Ev("select"), sel, NoUpload)

\* the sidebar: a workbook is uploaded
Uploads == { XlsxFile(BookAB), XlsxFile(BookNoName) }

Upload ==
    /\ pc = "idle"
    /\ ~is_mini_app
    /\ selectbox = "Excel File"
    /\ \E upl \in Uploads :
          RunScript(Session(widgets, Started(Ev("upload"))), Ev("upload"), selectbox, upl)

\* the sidebar: Connect to Sheet, with a sheet name typed or with none
SheetNames == { <<>>, <<"s">> }

ClickConnect ==
    /\ pc = "idle"
    /\ ~is_mini_app
    /\ selectbox = "Google Sheets"
    /\ \E sheet_name \in SheetNames :
          LET ev == [Ev("connect") EXCEPT !.new_name = sheet_name]
          IN  RunScript(Session(widgets, Started(ev)), ev, selectbox, uploaded)

\* lines 450-463: the bot receives a payload of the Mini App
Payloads == { JsonFile(json_dump(TwoPeopleDone)), Garbage }

\* lines 457-461: s1 is what the save of line 454 did, a what
\* auto_add_new_cycle returned
Replied(s1, a, s2) ==
    IF a.ret
    THEN [file |-> s2.file, remote |-> s2.remote,
          events |-> <<"payload", "mutate">> \o s1.events \o <<"auto_add", "advance">>
                     \o s2.events \o <<"reply_advanced">>]
    ELSE [file |-> s1.file, remote |-> s1.remote,
          events |-> <<"payload", "mutate">> \o s1.events \o <<"auto_add", "reply_updated">>]

AutoChecked(s1, a, c, net2) ==
    Replied(s1, a, save_data(a.data, NoCustom, c, s1.file, s1.remote, net2))

Received(d, f, rem, c, net1, net2) ==
    AutoChecked(save_data(d, NoCustom, c, f, rem, net1), auto_add_new_cycle(d), c, net2)

handle_web_app_data(payload, f, rem, c, net1, net2) ==
    IF payload.kind # "json"
    THEN [file |-> f, remote |-> rem, events |-> <<"payload", "reply_error">>]
    ELSE Received(json_load(payload.text), f, rem, c, net1, net2)

\* botTrace: what the handler did, payload after payload
Count(t, event) == Cardinality({ k \in 1..Len(t) : t[k] = event })

BotWebAppData ==
    /\ Count(botTrace, "payload") < MaxPayloads
    /\ \E payload \in Payloads :
       \E net1 \in Outcomes(Mirrors(NoCustom, cfg), SaveNetOutcomes) :
       \E net2 \in Outcomes(Mirrors(NoCustom, cfg), SaveNetOutcomes) :
          LET r == handle_web_app_data(payload, file, remote, cfg, net1, net2)
          IN  /\ file' = r.file
              /\ remote' = r.remote
              /\ botTrace' = botTrace \o r.events
              /\ UNCHANGED <<data, cfg, custom, raised, calls, uiVars, bot>>

Next ==
    \/ Open
    \/ Rerun
    \/ Toggle
    \/ ClickAddPerson
    \/ ClickAddCycle
    \/ ClickSave
    \/ ClickCancel
    \/ ClickRefresh
    \/ SubmitAdd
    \/ ClickRemove
    \/ SelectSource
    \/ Upload
    \/ ClickReload
    \/ ClickConnect
    \/ BotWebAppData

Spec == Init /\ [][Next]_vars

(***************************************************************************)
(* Properties of the cycle engine.                                         *)
(***************************************************************************)
\* the step is a call of auto_add_new_cycle
AutoAddStep == calls' # <<>> /\ calls'[1].op = "auto_add_new_cycle"

\* every participant's flag on the last column is true, the roster not empty
LastColumnAllTrue(d) ==
    /\ d.people # <<>>
    /\ d.columns # <<>>
    /\ \A i \in 1..Len(d.people) :
          /\ d.columns[Len(d.columns)] \in DOMAIN d.people[i].flags
          /\ d.people[i].flags[d.columns[Len(d.columns)]]

\* d2 is d with exactly one column, name, appended and every flag for it false
AppendedColumn(d, d2, name) ==
    /\ d2.columns = Append(d.columns, name)
    /\ Len(d2.people) = Len(d.people)
    /\ \A i \in 1..Len(d.people) :
          /\ d2.people[i].Name = d.people[i].Name
          /\ name \in DOMAIN d2.people[i].flags
          /\ d2.people[i].flags[name] = FALSE

\* what follows "Cycle " in a column name
Suffix(col) == SubSeq(col, Len(CyclePrefix) + 1, Len(col))

\* the numeric suffixes of the columns named "Cycle <k>": what follows "Cycle "
\* is, as a whole, an integer (optional sign, digits)
NumericSuffixes(columns) ==
    { int(Suffix(columns[i])) :
        i \in { j \in 1..Len(columns) :
                  /\ startswith(columns[j], CyclePrefix)
                  /\ IsIntLiteral(Suffix(columns[j])) } }

\* the characters of s before its first space
UpToSpace(s) ==
    SubSeq(s, 1, Max({ n \in 0..Len(s) : \A j \in 1..n : s[j] # " " }))

\* the integers written (optional sign, digits) right after "Cycle " and ended
\* by a space or by the end of the name
LeadingNumbers(columns) ==
    { int(UpToSpace(Suffix(columns[i]))) :
        i \in { j \in 1..Len(columns) :
                  /\ startswith(columns[j], CyclePrefix)
                  /\ IsIntLiteral(UpToSpace(Suffix(columns[j]))) } }

C2_EmptyRoster ==
    [][ (calls' # <<>> /\ data.people = <<>>
         /\ calls'[1].op \in {"auto_add_new_cycle", "check_if_cycle_complete"})
          => (calls'[1].ret = FALSE /\ data' = data) ]_vars

\* auto_add_new_cycle was called on an empty roster that has columns
C2_Witness ==
    /\ calls # <<>>
    /\ calls[1].op = "auto_add_new_cycle"
    /\ calls[1].ret = FALSE
    /\ data.people = <<>>
    /\ data.columns # <<>>

\* C3: two calls of auto_add_new_cycle in a row append at most one column:
\* when the first advanced, the second returns false and changes nothing.
C3_AdvanceOnce ==
    [][ (AutoAddStep /\ calls # <<>> /\ calls[1].op = "auto_add_new_cycle"
         /\ calls[1].ret = TRUE)
          => (calls'[1].ret = FALSE /\ data' = data) ]_vars

\* the second of two calls in a row, the first of which advanced
C3_Witness ==
    /\ Len(calls) = 2
    /\ calls[1] = Record("auto_add_new_cycle", FALSE)
    /\ calls[2] = Record("auto_add_new_cycle", TRUE)

(***************************************************************************)
(* Properties of the persistence gateway.                                  *)
(***************************************************************************)
\* C5: save_data(model) followed by load_data() that reads the canonical file
\* returns a model equal to the saved one: the same participants in the same
\* order, the same columns in the same order, the same flags.
C5_RoundTrip ==
    [][ (/\ calls # <<>>
         /\ calls[1].op = "save_data"
         /\ calls'[1].op = "load_data"
         /\ calls'[1].ret = "json")
          => (raised' = FALSE /\ data' = data) ]_vars

\* a model with a true flag, a false flag and a missing entry was saved and
\* read back from the canonical file
C5_Witness ==
    /\ Len(calls) = 2
    /\ calls[1].op = "load_data"
    /\ calls[1].ret = "json"
    /\ calls[2].op = "save_data"
    /\ Len(data.people) = 2
    /\ data.columns = <<Cycle1, Week3>>
    /\ DOMAIN data.people[1].flags = {Cycle1, Week3}
    /\ data.people[1].flags[Cycle1] = TRUE
    /\ data.people[1].flags[Week3] = FALSE
    /\ DOMAIN data.people[2].flags = {Week3}

\* C8: save_data writes the local file first on every save, whatever the
\* configured source; a failure of the remote mirror does not raise out of
\* save_data and leaves the local file holding the saved model.
C8_LocalFirst ==
    (calls # <<>> /\ calls[1].op = "save_data")
        => /\ calls[1].ret[1] = "write_local"
           /\ raised = FALSE
           /\ file = JsonFile(json_dump(data))

\* a save whose mirror failed after the sheet was cleared
C8_Witness ==
    /\ calls # <<>>
    /\ calls[1].op = "save_data"
    /\ calls[1].ret = <<"write_local", "mirror_failed">>
    /\ remote.creds
    /\ remote.values = <<>>
    /\ data.people # <<>>
    /\ file = JsonFile(json_dump(data))

\* C9 as stated: load_data never raises and always returns a model; when no
\* spreadsheet source loads it returns the local file's model, and the
\* built-in roster when the local file gives none.
C9_Stated ==
    (calls # <<>> /\ calls[1].op = "load_data")
        => /\ raised = FALSE
           /\ calls[1].ret \in {"json", "default"}
                => data = IF file.kind = "json" THEN json_load(file.text) ELSE DefaultData

(***************************************************************************)
(* Properties of the session.                                              *)
(***************************************************************************)
\* the step is the script run started by a click on Save
SaveStep == pc = "idle" /\ events' = events + 1 /\ trace'[1] = "save"

\* a roster that is not empty with one column on which every flag is true
SingleColumnDone(d) ==
    IF d = NoData THEN FALSE ELSE Len(d.columns) = 1 /\ LastColumnAllTrue(d)

\* after the step the session's model is the old one with one more column,
\* every flag false on it, and the local file holds that model
AdvancedAndSaved ==
    /\ Len(data'.columns) = 2
    /\ AppendedColumn(data, data', data'.columns[2])
    /\ file'.kind = "json"
    /\ json_load(file'.text) = data'

\* C4 as stated: once every participant's flag on the single column is true
\* and the user saves, the session's model and the local file have exactly
\* one more column with every flag false on it.
C4_Stated == [][SaveStep /\ SingleColumnDone(data) => AdvancedAndSaved]_vars

\* the same where the configured source is not google_sheets, so that a run
\* loads the model only when the session has none
C4_LoadIfAbsent ==
    [][SaveStep /\ SingleColumnDone(data) /\ cfg.DATA_SOURCE_TYPE # "google_sheets"
          => AdvancedAndSaved]_vars

\* every write of t comes after a call of auto_add_new_cycle with no mutation
\* in between
SavesAfterAutoAdd(t) ==
    \A k \in 1..Len(t) :
        t[k] = "write_local" =>
            \E j \in 1..(k - 1) :
                /\ t[j] = "auto_add"
                /\ \A m \in (j + 1)..(k - 1) : t[m] # "mutate"

\* C6 as stated: a mutation or an inbound payload is followed by
\* auto_add_new_cycle and then by the save, so no save writes a model that was
\* mutated after the last call of auto_add_new_cycle.
C6_Stated == SavesAfterAutoAdd(trace) /\ SavesAfterAutoAdd(botTrace)

\* the same for the script runs alone
C6_ScriptRuns == SavesAfterAutoAdd(trace)

\* a mutation or an automatic advance of t has no write after it
Unsaved(t) ==
    MaxOr0({ k \in 1..Len(t) : t[k] \in {"mutate", "advance"} }) > LastIndexOf(t, "write_local")

\* C7 as stated: when the page waits for the next user action, every mutation
\* made so far has been followed by a write of the model to the local file.
C7_Stated == pc = "idle" => ~Unsaved(trace)

\* every participant has an entry for every column
Materialized(d) ==
    \A i \in 1..Len(d.people) :
        \A col \in Range(d.columns) : col \in DOMAIN d.people[i].flags

\* C10 as stated: the session's model has a flag entry for every participant
\* and column, and so has every model that save_data wrote to the local file.
C10_Stated ==
    /\ IF data = NoData THEN TRUE ELSE Materialized(data)
    /\ IF "write_local" \in Range(trace) /\ file.kind = "json"
       THEN Materialized(json_load(file.text))
       ELSE TRUE

(***************************************************************************)
(* Properties of the loaded model.                                         *)
(***************************************************************************)
\* the last call was load_data and it returned a model
LoadReturned == calls # <<>> /\ calls[1].op = "load_data" /\ ~raised

\* C11 as stated: the model a load returns, from any backend, has at least
\* one cycle column (a default first cycle is seeded when there is none).
C11_Stated == LoadReturned => data.columns # <<>>

\* the same for a load that read the workbook holding only a Name column
C11_NameOnlyWorkbook ==
    (LoadReturned /\ calls[1].ret = "excel" /\ file = XlsxFile(BookNameOnly))
        => data.columns # <<>>

(***************************************************************************)
(* SpecImport: the two importers called directly on a sheet with three     *)
(* columns under one header, or on a workbook and a sheet holding the same *)
(* text in one cell.                                                       *)
(***************************************************************************)
S_no_padded == <<" ", "n", "o", " ">>
S_TRUE_padded == <<" ", "T", "R", "U", "E", " ">>
S_Yes == <<"Y", "e", "s">>
S_no == <<"n", "o">>
S_maybe == <<"m", "a", "y", "b", "e">>
Cycle1_padded == <<"C", "y", "c", "l", "e", " ", "1", " ">>

\* a column of SampleRows + 1 cells, empty but for tok in row k (no row 0)
Pattern(k, tok) == [r \in 1..(SampleRows + 1) |-> IF r = k THEN tok ELSE <<>>]

ColumnPatterns ==
    { Pattern(k, tok) : k \in {0, 1, SampleRows, SampleRows + 1},
                        tok \in {S_TRUE, S_no_padded, <<"x">>} }

\* get_all_values() of a sheet with the header 'Cycle 1' on three columns
DupGrid(a, b, c) ==
    << <<S_Name, Cycle1, Cycle1_padded, Cycle1>> >>
        \o [r \in 1..(SampleRows + 1) |-> <<S_A, a[r], b[r], c[r]>>]

TextCells ==
    { S_true, S_Yes, S_1, S_TRUE_padded, S_false, S_no, S_0, <<>>, S_maybe, S_TRUE }

\* what pd.read_excel gives for a cell holding the text t: an empty cell is NaN
ExcelCell(t) == IF t = <<>> THEN NaNCell ELSE StrCell(t)

CellBook(t) ==
    [columns |-> <<S_Name, Cycle1>>,
     rows    |-> <<<<StrCell(S_A), ExcelCell(t)>>>>]

CellGrid(t) == << <<S_Name, Cycle1>>, <<S_A, t>> >>

InitImport ==
    /\ \/ \E a \in ColumnPatterns, b \in ColumnPatterns, c \in ColumnPatterns :
             /\ remote = [creds |-> TRUE, values |-> DupGrid(a, b, c)]
             /\ file = NoFile
       \/ \E t \in TextCells :
             /\ remote = [creds |-> TRUE, values |-> CellGrid(t)]
             /\ file = XlsxFile(CellBook(t))
    /\ data = NoData
    /\ calls = <<>>
    /\ cfg = [DATA_SOURCE_TYPE |-> "json", GOOGLE_SHEET_NAME |-> FALSE]
    /\ custom = NoCustom
    /\ raised = FALSE
    /\ NoSession

\* a call load_google_sheets_data(); the record keeps final_headers
ImportSheet ==
    \E net \in NetOutcomes :
        \E r \in {load_google_sheets_data(remote, net)} :
            /\ data' = IF r = None THEN data ELSE r
            /\ calls' = Called("load_google_sheets_data",
                               IF r = None THEN None
                               ELSE FinalIndex(remote.values[1], Tail(remote.values)))
            /\ UNCHANGED <<envVars, raised, uiVars, botTrace, bot>>

\* a call load_excel_data(DATA_FILE)
ImportExcel ==
    \E r \in {load_excel_data(file)} :
        /\ data' = IF r = None THEN data ELSE r
        /\ calls' = Called("load_excel_data", r = None)
        /\ UNCHANGED <<envVars, raised, uiVars, botTrace, bot>>

NextImport == ImportSheet \/ ImportExcel

SpecImport == InitImport /\ [][NextImport]_vars

\* the last call was load_google_sheets_data and it returned a model
SheetImported ==
    /\ calls # <<>>
    /\ calls[1].op = "load_google_sheets_data"
    /\ calls[1].ret # None

\* column k of the sheet holds a boolean-like token in one of its first five
\* data rows
Booleanish(k) ==
    \E r \in 2..Len(remote.values) :
        /\ r - 1 <= 5
        /\ k <= Len(remote.values[r])
        /\ upper(strip(remote.values[r][k])) \in BoolTokens

\* the columns whose trimmed header is name
Carrying(name) ==
    { k \in 1..Len(remote.values[1]) : strip(remote.values[1][k]) = name }

\* C12: for a header carried by several columns, the column kept is the
\* leftmost one with a boolean-like token in its first five data rows, or,
\* when there is none, the leftmost one; the flags are read from it.
C12_LeftmostBoolean ==
    SheetImported =>
        \A name \in DOMAIN calls[1].ret :
            LET carrying == Carrying(name)
                boolish == { k \in carrying : Booleanish(k) }
                kept == calls[1].ret[name]
            IN  /\ kept = IF boolish # {} THEN Min(boolish) ELSE Min(carrying)
                /\ name # S_Name =>
                      \A i \in 1..Len(data.people) :
                          data.people[i].flags[name]
                              = SheetFlag(remote.values[i + 1][kept])

\* a sheet in which the leftmost of three columns under one header has no
\* boolean-like token in its first five rows and the other two have one
C12_Witness ==
    /\ SheetImported
    /\ Cardinality(Carrying(Cycle1)) = 3
    /\ ~Booleanish(2) /\ Booleanish(3) /\ Booleanish(4)
    /\ calls[1].ret[Cycle1] = 3

\* the sheet and the workbook hold one participant and one cell
OneCell == Len(remote.values) = 2 /\ Len(remote.values[1]) = 2 /\ file.kind = "xlsx"

\* an importer returned a model of the one-cell source
CellImported ==
    /\ OneCell
    /\ calls # <<>>
    /\ \/ calls[1].op = "load_google_sheets_data" /\ calls[1].ret # None
       \/ calls[1].op = "load_excel_data" /\ calls[1].ret = FALSE

\* trimmed and compared without case, the text is TRUE, YES or 1
TruthyText(t) == upper(strip(t)) \in {S_TRUE, S_YES, S_1}

\* C13 as stated: on the Excel path and on the sheets path alike, the flag
\* read from a textual cell is true exactly when the text, trimmed and
\* compared without case, is TRUE, YES or 1.
C13_Stated ==
    CellImported =>
        data.people[1].flags[Cycle1] = TruthyText(remote.values[2][2])

\* the same for the sheets path alone
C13_SheetsPath ==
    (CellImported /\ calls[1].op = "load_google_sheets_data") =>
        data.people[1].flags[Cycle1] = TruthyText(remote.values[2][2])

\* the same for the Excel path and a text that has no blank at either end
C13_ExcelUnpadded ==
    (CellImported /\ calls[1].op = "load_excel_data"
        /\ remote.values[2][2] # <<>>
        /\ strip(remote.values[2][2]) = remote.values[2][2]) =>
        data.people[1].flags[Cycle1] = TruthyText(remote.values[2][2])

(***************************************************************************)
(* The add_person_form.                                                    *)
(***************************************************************************)
\* a script run started by the form's submit button
SubmitStep == trace' # <<>> /\ trace'[1] = "submit_add" /\ trace' # trace

LastPerson(d) == d.people[Len(d.people)]

\* C14 as stated: a submitted name that is blank after trimming is rejected,
\* so a submit that makes the roster longer appended a name that is not
\* blank after trimming.
C14_Stated ==
    [][(SubmitStep /\ data # NoData /\ Len(data'.people) > Len(data.people))
          => strip(LastPerson(data').Name) # <<>>]_vars

\* the rest of C14: a submit that makes the roster longer (the source not
\* being reloaded by the run) appends one participant at the end, False for
\* every column, and leaves the others and the columns as they were.
C14_AppendsOne ==
    [][(SubmitStep /\ data # NoData /\ cfg.DATA_SOURCE_TYPE # "google_sheets"
            /\ Len(data'.people) > Len(data.people))
          => /\ Len(data'.people) = Len(data.people) + 1
             /\ data'.columns = data.columns
             /\ \A i \in 1..Len(data.people) :
                   /\ data'.people[i].Name = data.people[i].Name
                   /\ \A col \in Range(data.columns) :
                         Get(data'.people[i], col) = Get(data.people[i], col)
             /\ \A col \in Range(data.columns) :
                   /\ col \in DOMAIN LastPerson(data').flags
                   /\ ~LastPerson(data').flags[col]]_vars

\* a submit with no name leaves the roster as long as it was
C14_EmptyRejected ==
    [][(SubmitStep /\ data # NoData /\ cfg.DATA_SOURCE_TYPE # "google_sheets"
            /\ Len(data'.people) # Len(data.people))
          => LastPerson(data').Name # <<>>]_vars

(***************************************************************************)
(* Add Cycle, and the frame of the cycle engine.                           *)
(***************************************************************************)
AddCycleStep == calls' # <<>> /\ calls'[1].op = "add_cycle"

LastColumn(d) == d.columns[Len(d.columns)]

\* the step follows another Add Cycle and the number of its column is larger
Increasing ==
    (calls # <<>> /\ calls[1].op = "add_cycle")
        => int(Suffix(LastColumn(data'))) > int(Suffix(LastColumn(data)))

C19_Frame ==
    [][ AutoAddStep
          => /\ Len(data'.people) = Len(data.people)
             /\ Len(data'.columns) >= Len(data.columns)
             /\ SubSeq(data'.columns, 1, Len(data.columns)) = data.columns
             /\ \A i \in 1..Len(data.people) :
                   /\ data'.people[i].Name = data.people[i].Name
                   /\ \A col \in Range(data.columns) :
                         /\ (col \in DOMAIN data'.people[i].flags)
                               = (col \in DOMAIN data.people[i].flags)
                         /\ Get(data'.people[i], col) = Get(data.people[i], col)
             /\ (calls'[1].ret = FALSE => data' = data) ]_vars

\* an advance from two columns, the first holding a true, a false and a
\* missing entry among the participants, all kept
C19_Witness ==
    /\ calls # <<>>
    /\ calls[1].op = "auto_add_new_cycle"
    /\ calls[1].ret = TRUE
    /\ data.columns = <<Cycle1, Cycle2, CycleName(3)>>
    /\ Len(data.people) = 2
    /\ Cycle1 \notin DOMAIN data.people[1].flags
    /\ Cycle1 \in DOMAIN data.people[2].flags
    /\ data.people[2].flags[Cycle1] = FALSE
    /\ data.people[1].flags[Cycle2] /\ data.people[2].flags[Cycle2]

Distinct(columns) ==
    \A i \in 1..Len(columns), j \in 1..Len(columns) :
        i # j => columns[i] # columns[j]

\* C20: from pairwise distinct column names, an automatic advance or an Add
\* Cycle leaves the column names pairwise distinct: the generated name is
\* none of the existing ones.
C20_FreshName ==
    [][ ((AutoAddStep \/ AddCycleStep) /\ Distinct(data.columns))
          => Distinct(data'.columns) ]_vars

\* an advance and then an Add Cycle from the column "Cycle 2 b"
C20_Witness ==
    /\ Len(calls) = 2
    /\ calls[1].op = "add_cycle"
    /\ calls[2].op = "auto_add_new_cycle" /\ calls[2].ret = TRUE
    /\ data.columns = <<Cycle2b, CycleName(3), CycleName(4)>>
    /\ Distinct(data.columns)

(***************************************************************************)
(* The session's model across script runs.                                 *)
(***************************************************************************)
\* the actions that edit the model or the form, none of which asks for a load
UserEdits ==
    {"toggle", "add_person_button", "add_cycle", "save", "cancel", "submit_add", "remove"}

\* a script run started by such an action, or the rerun that follows it, in
\* a session that holds a model
EditRun ==
    /\ pc \in {"idle", "rerun"}
    /\ data # NoData
    /\ trace' # trace
    /\ trace'[1] \in UserEdits

Loads(t) == Count(t, "load") + Count(t, "load_raised")

\* d2 holds the roster and the columns of d: the participants in order, the
\* columns in order as a prefix
Kept(d, d2) ==
    /\ d2 # NoData
    /\ Len(d2.people) = Len(d.people)
    /\ Len(d2.columns) >= Len(d.columns)
    /\ SubSeq(d2.columns, 1, Len(d.columns)) = d.columns
    /\ \A i \in 1..Len(d.people) : d2.people[i].Name = d.people[i].Name

\* C17 as stated: whatever the configured source, a run of a session that
\* holds a model does not load it again, and the roster and the columns an
\* action left are there after the rerun the action asked for.
C17_Stated ==
    [][ EditRun
          => /\ Loads(trace') = IF pc = "rerun" THEN Loads(trace) ELSE 0
             /\ pc = "rerun" => Kept(data, data') ]_vars

\* the same where the configured source is not google_sheets
C17_OtherSources ==
    [][ (EditRun /\ cfg.DATA_SOURCE_TYPE # "google_sheets")
          => /\ Loads(trace') = IF pc = "rerun" THEN Loads(trace) ELSE 0
             /\ pc = "rerun" => Kept(data, data') ]_vars

\* the rerun that Add Cycle asks for keeps the column it added (it does not
\* when google_sheets is configured)
C17_LosesCycle ==
    [][ (EditRun /\ pc = "rerun" /\ trace[1] = "add_cycle")
          => Len(data'.columns) >= Len(data.columns) ]_vars

(***************************************************************************)
(* SpecBot: the Bot Control buttons and the listener threads.              *)
(*   bot.status   STATUS_FILE: NoFile, or the JSON text {"running": ...}    *)
(*   bot.threads  one entry per thread start_bot_thread started, its       *)
(*                position in run_bot_async:                               *)
(*                  "starting"  before update_status(True) (lines 469-476) *)
(*                  "init"      flag written, before the loop (481-483)    *)
(*                  "polling"   in the loop of lines 486-487               *)
(*                  "stopping"  in the finally block, before line 497      *)
(*                  "done"      returned                                   *)
(*   bot.asked    the threads that were listening when Stop wrote False    *)
(* The threads run beside the script runs: their steps interleave freely.  *)
(* A button is taken to act when the run its click starts reads the flag   *)
(* value that enables it.                                                  *)
(***************************************************************************)
\* lines 298-306
get_bot_status(status) ==
    IF status.kind = "absent" THEN FALSE ELSE status.running = S_true

\* lines 294-296
StatusFile(running) == [kind |-> "json", running |-> JsonBool(running)]

update_status(b, running) == [b EXCEPT !.status = StatusFile(running)]

At(b, t, where) == [b EXCEPT !.threads[t] = where]

Listening(b) == { t \in 1..Len(b.threads) : b.threads[t] \in {"init", "polling"} }

Polling(b) == { t \in 1..Len(b.threads) : b.threads[t] = "polling" }

\* the status file a process finds when it starts: none, or the one the last
\* process left
InitBot ==
    /\ bot \in { [status |-> s, threads |-> <<>>, asked |-> {}] :
                    s \in {NoFile, StatusFile(FALSE), StatusFile(TRUE)} }
    /\ data = NoData
    /\ file = NoFile
    /\ remote = [creds |-> FALSE, values |-> <<>>]
    /\ cfg = [DATA_SOURCE_TYPE |-> "json", GOOGLE_SHEET_NAME |-> FALSE]
    /\ custom = NoCustom
    /\ raised = FALSE
    /\ calls = <<>>
    /\ is_mini_app = FALSE
    /\ show_add_person = FALSE
    /\ widgets = <<>>
    /\ selectbox = "JSON File"
    /\ uploaded = NoUpload
    /\ pc = "idle"
    /\ trace = <<>>
    /\ events = 0
    /\ botTrace = <<>>

restOfState == <<data, file, remote, cfg, custom, raised, calls, uiVars, botTrace>>

\* lines 846-851: the Start button, enabled while the flag reads false
ClickStart ==
    /\ ~get_bot_status(bot.status)
    /\ Len(bot.threads) < MaxThreads
    /\ bot' = [bot EXCEPT !.threads = Append(@, "starting")]
    /\ UNCHANGED restOfState

\* lines 853-857: the Stop button, enabled while the flag reads true
ClickStop ==
    /\ get_bot_status(bot.status)
    /\ bot' = [update_status(bot, FALSE) EXCEPT !.asked = @ \cup Listening(bot)]
    /\ UNCHANGED restOfState

\* line 478
ListenerSetRunning(t) ==
    /\ bot.threads[t] = "starting"
    /\ bot' = At(update_status(bot, TRUE), t, "init")

\* lines 481-483 succeed
ListenerStartPolling(t) ==
    /\ bot.threads[t] = "init"
    /\ bot' = At(bot, t, "polling")

\* lines 469-483 raise: the except clause prints, the finally block follows
ListenerError(t) ==
    /\ bot.threads[t] \in {"starting", "init"}
    /\ bot' = At(bot, t, "stopping")

\* lines 486-487: one test of the loop's condition
ListenerPoll(t) ==
    /\ bot.threads[t] = "polling"
    /\ bot' = IF get_bot_status(bot.status) THEN bot ELSE At(bot, t, "stopping")

\* lines 491-497: the application is stopped, then update_status(False)
ListenerShutdown(t) ==
    /\ bot.threads[t] = "stopping"
    /\ bot' = At(update_status(bot, FALSE), t, "done")

ListenerStep(t) ==
    /\ t \in 1..Len(bot.threads)
    /\ \/ ListenerSetRunning(t)
       \/ ListenerStartPolling(t)
       \/ ListenerError(t)
       \/ ListenerPoll(t)
       \/ ListenerShutdown(t)
    /\ UNCHANGED restOfState

\* what a thread does by itself once started: every step but the failure
ListenerProgress(t) ==
    /\ t \in 1..Len(bot.threads)
    /\ \/ ListenerSetRunning(t)
       \/ ListenerStartPolling(t)
       \/ ListenerPoll(t)
       \/ ListenerShutdown(t)
    /\ UNCHANGED restOfState

NextBot ==
    \/ ClickStart
    \/ ClickStop
    \/ \E t \in 1..MaxThreads : ListenerStep(t)

SpecBot == InitBot /\ [][NextBot]_vars

\* every started thread is scheduled again and again
SpecBotFair == SpecBot /\ \A t \in 1..MaxThreads : WF_vars(ListenerProgress(t))

\* C18 as stated: at any time at most one listener is in its polling loop.
C18_Stated == Cardinality(Polling(bot)) <= 1

\* a listener's final update_status(False) leaves no other listener polling
\* under a flag that reads false
C18_FinalWrite ==
    [][\A t \in 1..Len(bot.threads) :
          (bot.threads[t] = "stopping" /\ bot'.threads[t] = "done"
              /\ get_bot_status(bot.status))
            => Polling(bot) = {}]_vars

\* Start launches a thread only in a state where the flag reads false
C18_StartReadsFalse ==
    [][Len(bot'.threads) > Len(bot.threads) => ~get_bot_status(bot.status)]_vars

\* Start launches a thread only in a state where no listener is listening
C18_StartWhileListening ==
    [][Len(bot'.threads) > Len(bot.threads) => Listening(bot) = {}]_vars

Done(t) == t <= Len(bot.threads) /\ bot.threads[t] = "done"

\* C16 as stated: a listener that was listening when Stop wrote the flag
\* false sees it at its next poll, leaves the loop and ends.
C16_Stated == \A t \in 1..MaxThreads : (t \in bot.asked) ~> Done(t)

\* such a listener ends, or the flag reads true again
C16_UnlessSetAgain ==
    \A t \in 1..MaxThreads :
        (t \in bot.asked) ~> (Done(t) \/ get_bot_status(bot.status))

\* a listener leaves its loop only at a poll that reads the flag false
C16_LeavesOnFalse ==
    [][\A t \in 1..Len(bot.threads) :
          (bot.threads[t] = "polling" /\ bot'.threads[t] # "polling")
            => (~get_bot_status(bot.status) /\ bot'.threads[t] = "stopping")]_vars

\* when a listener ends, for a stop request or an error, the flag reads false
C16_FalseAtEnd ==
    [][\A t \in 1..Len(bot.threads) :
          (bot.threads[t] # "done" /\ bot'.threads[t] = "done")
            => ~get_bot_status(bot'.status)]_vars

=============================================================================
